---- MODULE Spec2Model ----
(***************************************************************************)
(* Model of src/app.py: the FakeNewsDetector pipeline (URL extraction,     *)
(* feature extraction, extractive summary, rule-based credibility scoring, *)
(* analyze_text) and the Streamlit session that appends results to         *)
(* st.session_state.analysis_history.                                      *)
(*                                                                         *)
(* Texts are sequences of one-character strings, so that len(), lower(),   *)
(* the `in` substring test, count('!'), split() and slicing are computed   *)
(* on characters as the Python code computes them.  Ratios are exact       *)
(* rationals [num, den]; the float comparison `ratio > 0.6` agrees with    *)
(* the exact one for the small integer scores the scorer produces.         *)
(***************************************************************************)
EXTENDS Integers, Sequences, FiniteSets, TLC

VARIABLES
  page,              \* the page chosen in the sidebar radio (main)
  analysis_history,  \* st.session_state.analysis_history
  clock,             \* datetime.now(), advanced by every submitted request
  request,           \* what the last run of the script did (calls, messages)
  text,              \* argument of the detector method under study
  tok_ok,            \* whether the NLTK punkt tokenizer data can be loaded
  response,          \* what requests.get / BeautifulSoup yield for the URL
  out                \* outcome of the detector method applied to the input

vars == <<page, analysis_history, clock, request, text, tok_ok, response, out>>

\* ------------------------------------------------------------------ bounds
MaxChunks == 2

MaxParagraphs == 2

MaxRequests == 3

\* ------------------------------------------------- constants of the program
MinAnalysisLen == 50

MinSummaryLen == 100

SummarySentences == 3

FallbackChars == 200

MinContentLen == 100

IndicatorWeight == 3

PunctuationPenalty == 2

ThresholdNum == 3

ThresholdDen == 5

\* ------------------------------------------------------- text fragments
FakeChunk ==
  <<"B","i","g"," ","P","h","a","r","m","a"," ","c","o","n","s","p","i","r",
    "a","c","y"," ","c","o","v","e","r","-","u","p","."," ">>

ReliableChunk ==
  <<"R","e","s","e","a","r","c","h"," ","s","h","o","w","s"," ","e","x","p",
    "e","r","t","s"," ","s","a","y"," ","s","o","."," ">>

BangChunk ==
  <<"!">>

Chunk49 ==
  <<"I","t"," ","r","a","i","n","e","d"," ","a","l","l"," ","d","a","y",".",
    " ","T","h","e"," ","c","o","u","n","c","i","l"," ","m","e","t"," ","i",
    "n"," ","t","h","e"," ","h","a","l","l","s","."," ">>

Chunk50 ==
  <<"T","h","e"," ","v","o","t","e"," ","w","a","s"," ","c","l","o","s","e",
    "d","."," ","N","o","b","o","d","y"," ","l","e","f","t"," ","b","e","f",
    "o","r","e"," ","m","i","d","n","i","g","h","t","."," ">>

Chunk101 ==
  <<"T","h","e"," ","m","a","y","o","r"," ","o","p","e","n","e","d"," ","t",
    "h","e"," ","s","e","s","s","i","o","n"," ","a","t"," ","n","i","n","e",
    "."," ","T","w","o"," ","m","e","m","b","e","r","s"," ","a","s","k","e",
    "d"," ","a","b","o","u","t"," ","t","h","e"," ","r","o","a","d","."," ",
    "T","h","e"," ","b","u","d","g","e","t"," ","p","a","s","s","e","d"," ",
    "b","y"," ","a"," ","v","o","t","e","."," ">>

BlankChunk ==
  <<" ","\n"," ">>

MsgTooShortAnalysis ==
  <<"T","e","x","t"," ","t","o","o"," ","s","h","o","r","t"," ","f","o","r",
    " ","a","n","a","l","y","s","i","s">>

MsgTooShortSummary ==
  <<"T","e","x","t"," ","t","o","o"," ","s","h","o","r","t"," ","f","o","r",
    " ","m","e","a","n","i","n","g","f","u","l"," ","s","u","m","m","a","r",
    "y">>

Ellipsis ==
  <<".",".",".">>

TitlePasted ==
  <<"P","a","s","t","e","d"," ","T","e","x","t"," ","A","n","a","l","y","s",
    "i","s">>

TitleNone ==
  <<"N","o"," ","t","i","t","l","e"," ","f","o","u","n","d">>

TitleError ==
  <<"E","r","r","o","r">>

TitleNews ==
  <<"N","e","w","s">>

fake_indicators ==
  { <<"m","i","r","a","c","l","e"," ","c","u","r","e">>,
    <<"s","e","c","r","e","t"," ","t","h","e","y"," ","d","o","n","'","t"," ",
    "w","a","n","t"," ","y","o","u"," ","t","o"," ","k","n","o","w">>,
    <<"c","o","n","s","p","i","r","a","c","y">>,
    <<"c","o","v","e","r","-","u","p">>,
    <<"b","i","g"," ","p","h","a","r","m","a">>,
    <<"m","a","i","n","s","t","r","e","a","m"," ","m","e","d","i","a"," ","h",
    "i","d","i","n","g">> }

reliable_indicators ==
  { <<"a","c","c","o","r","d","i","n","g"," ","t","o"," ","s","t","u","d","y">>,
    <<"r","e","s","e","a","r","c","h"," ","s","h","o","w","s">>,
    <<"e","x","p","e","r","t","s"," ","s","a","y">>,
    <<"o","f","f","i","c","i","a","l"," ","r","e","p","o","r","t">>,
    <<"p","e","e","r","-","r","e","v","i","e","w","e","d">>,
    <<"c","l","i","n","i","c","a","l"," ","t","r","i","a","l">>,
    <<"s","c","i","e","n","t","i","f","i","c"," ","s","t","u","d","y">> }

sensational_words ==
  { <<"s","h","o","c","k","i","n","g">>,
    <<"m","i","r","a","c","l","e">>,
    <<"s","e","c","r","e","t">>,
    <<"b","r","e","a","k","i","n","g">>,
    <<"u","r","g","e","n","t">> }

feature_reliable_indicators ==
  { <<"a","c","c","o","r","d","i","n","g"," ","t","o">>,
    <<"s","t","u","d","y"," ","s","h","o","w","s">>,
    <<"r","e","s","e","a","r","c","h"," ","i","n","d","i","c","a","t","e","s">>,
    <<"e","x","p","e","r","t","s"," ","s","a","y">> }

ExampleUrl ==
  <<"h","t","t","p","s",":","/","/","e","x","a","m","p","l","e",".","c","o",
    "m","/","n","e","w","s">>

Chunks ==
  <<FakeChunk, ReliableChunk, BangChunk, Chunk49, Chunk50, Chunk101,
    BlankChunk>>

RECURSIVE Flatten(_)
Flatten(ss) ==
  IF ss = <<>> THEN <<>> ELSE Head(ss) \o Flatten(Tail(ss))

ChunkLists(n) ==
  UNION { [1..k -> 1..Len(Chunks)] : k \in 0..n }

Texts ==
  { Flatten([i \in 1..Len(c) |-> Chunks[c[i]]]) : c \in ChunkLists(MaxChunks) }

\* ------------------------------------------------------ string primitives
Whitespace == {" ", "\n", "\t"}

IsSpace(c) == c \in Whitespace

LowerMap ==
  ("A" :> "a") @@ ("B" :> "b") @@ ("C" :> "c") @@ ("D" :> "d") @@
  ("E" :> "e") @@ ("F" :> "f") @@ ("G" :> "g") @@ ("H" :> "h") @@
  ("I" :> "i") @@ ("J" :> "j") @@ ("K" :> "k") @@ ("L" :> "l") @@
  ("M" :> "m") @@ ("N" :> "n") @@ ("O" :> "o") @@ ("P" :> "p") @@
  ("Q" :> "q") @@ ("R" :> "r") @@ ("S" :> "s") @@ ("T" :> "t") @@
  ("U" :> "u") @@ ("V" :> "v") @@ ("W" :> "w") @@ ("X" :> "x") @@
  ("Y" :> "y") @@ ("Z" :> "z")

\* str.lower()
Lower(t) ==
  [i \in 1..Len(t) |-> IF t[i] \in DOMAIN LowerMap THEN LowerMap[t[i]] ELSE t[i]]

\* p occurs in t at position i
OccursAt(p, t, i) ==
  /\ i + Len(p) - 1 <= Len(t)
  /\ \A j \in 1..Len(p) : t[i + j - 1] = p[j]

\* the Python test `p in t` on strings
Contains(p, t) ==
  \E i \in 1..(Len(t) - Len(p) + 1) : OccursAt(p, t, i)

\* str.count(c) for a single character c
CountChar(t, c) ==
  Cardinality({ i \in 1..Len(t) : t[i] = c })

\* t[:n]
Take(t, n) ==
  IF Len(t) <= n THEN t ELSE SubSeq(t, 1, n)

\* ' '.join(parts)
RECURSIVE JoinSpace(_)
JoinSpace(parts) ==
  IF parts = <<>> THEN <<>>
  ELSE IF Len(parts) = 1 THEN parts[1]
  ELSE parts[1] \o <<" ">> \o JoinSpace(Tail(parts))

\* str.strip()
RECURSIVE LStrip(_)
LStrip(t) ==
  IF t # <<>> /\ IsSpace(t[1]) THEN LStrip(Tail(t)) ELSE t

RECURSIVE RStrip(_)
RStrip(t) ==
  IF t # <<>> /\ IsSpace(t[Len(t)]) THEN RStrip(SubSeq(t, 1, Len(t) - 1)) ELSE t

Strip(t) == RStrip(LStrip(t))

\* re.sub(r'\s+', ' ', t): every run of whitespace becomes one space
RECURSIVE CollapseRange(_, _, _)
CollapseRange(t, lo, hi) ==
  IF lo > hi THEN <<>>
  ELSE IF lo = hi
  THEN IF ~IsSpace(t[lo]) THEN <<t[lo]>>
       ELSE IF lo > 1 /\ IsSpace(t[lo - 1]) THEN <<>> ELSE <<" ">>
  ELSE LET mid == (lo + hi) \div 2
       IN CollapseRange(t, lo, mid) \o CollapseRange(t, mid + 1, hi)

CollapseWhitespace(t) == CollapseRange(t, 1, Len(t))

\* the index at which the whitespace-free run ending at i starts
RECURSIVE RunStart(_, _, _)
RunStart(t, i, stop) ==
  IF i = 1 \/ t[i - 1] \in stop THEN i ELSE RunStart(t, i - 1, stop)

\* str.split(): the maximal runs of non-whitespace characters
RECURSIVE SplitRange(_, _, _)
SplitRange(t, lo, hi) ==
  IF lo > hi THEN <<>>
  ELSE IF lo = hi
  THEN IF ~IsSpace(t[lo]) /\ (lo = Len(t) \/ IsSpace(t[lo + 1]))
       THEN <<SubSeq(t, RunStart(t, lo, Whitespace), lo)>>
       ELSE <<>>
  ELSE LET mid == (lo + hi) \div 2
       IN SplitRange(t, lo, mid) \o SplitRange(t, mid + 1, hi)

Split(t) == SplitRange(t, 1, Len(t))

\* --------------------------------------------------------- NLTK tokenizers
SentenceEnd == {".", "!", "?"}

Punctuation == {".", "!", "?", ","}

\* a sentence ends at a terminator that is followed by whitespace or by the
\* end of the text, and at the last character that is not whitespace
IsSentEnd(t, i) ==
  /\ ~IsSpace(t[i])
  /\ \/ t[i] \in SentenceEnd /\ (i = Len(t) \/ IsSpace(t[i + 1]))
     \/ \A k \in (i + 1)..Len(t) : IsSpace(t[k])

\* the first character of the sentence that ends at i
SentStart(t, i) ==
  LET ends == { k \in 1..(i - 1) : IsSentEnd(t, k) }
      prev == IF ends = {} THEN 0
              ELSE CHOOSE k \in ends : \A m \in ends : m <= k
  IN CHOOSE j \in (prev + 1)..i :
       ~IsSpace(t[j]) /\ \A m \in (prev + 1)..(j - 1) : IsSpace(t[m])

RECURSIVE SentRange(_, _, _)
SentRange(t, lo, hi) ==
  IF lo > hi THEN <<>>
  ELSE IF lo = hi
  THEN IF IsSentEnd(t, lo) THEN <<SubSeq(t, SentStart(t, lo), lo)>> ELSE <<>>
  ELSE LET mid == (lo + hi) \div 2
       IN SentRange(t, lo, mid) \o SentRange(t, mid + 1, hi)

\* nltk.sent_tokenize when the punkt data is available
sent_tokenize(t) == SentRange(t, 1, Len(t))

\* words are runs of characters that are neither whitespace nor
\* punctuation; every punctuation mark is a token of its own
RECURSIVE WordRange(_, _, _)
WordRange(t, lo, hi) ==
  IF lo > hi THEN <<>>
  ELSE IF lo = hi
  THEN IF t[lo] \in Punctuation THEN <<<<t[lo]>>>>
       ELSE IF /\ ~IsSpace(t[lo])
               /\ (lo = Len(t) \/ t[lo + 1] \in Whitespace \cup Punctuation)
       THEN <<SubSeq(t, RunStart(t, lo, Whitespace \cup Punctuation), lo)>>
       ELSE <<>>
  ELSE LET mid == (lo + hi) \div 2
       IN WordRange(t, lo, mid) \o WordRange(t, mid + 1, hi)

\* nltk.word_tokenize when the punkt data is available
word_tokenize(t) == WordRange(t, 1, Len(t))

\* ------------------------------------------------------ results and ratios
Ret(v) == [raised |-> FALSE, value |-> v]

Raise(e) == [raised |-> TRUE, value |-> e]

Rat(n, d) == [num |-> n, den |-> d]

RatGT(a, b) == a.num * b.den > b.num * a.den

RatEQ(a, b) == a.num * b.den = b.num * a.den

RatMax(a, b) == IF RatGT(b, a) THEN b ELSE a

Threshold == Rat(ThresholdNum, ThresholdDen)

Half == Rat(1, 2)

\* ------------------------------------------------------- FakeNewsDetector
\* extract_features: the tokenizers raise LookupError without punkt data
extract_features(t, tok) ==
  IF ~tok THEN Raise("LookupError")
  ELSE LET words == word_tokenize(Lower(t))
           sentences == sent_tokenize(t)
       IN Ret([word_count |-> Len(words),
               sentence_count |-> Len(sentences),
               avg_sentence_length |->
                 IF sentences # <<>> THEN Rat(Len(words), Len(sentences))
                 ELSE Rat(0, 1),
               exclamation_count |-> CountChar(t, "!"),
               sensational_word_count |->
                 Cardinality({ i \in 1..Len(words) :
                   \E w \in sensational_words : Contains(w, words[i]) }),
               reliable_indicator_count |->
                 Cardinality({ i \in 1..Len(words) :
                   \E w \in feature_reliable_indicators :
                     Contains(w, words[i]) })])

generate_summary_off_by_one(t, tok) ==
  IF Len(t) <= MinSummaryLen THEN MsgTooShortSummary
  ELSE IF tok
       THEN LET sentences == sent_tokenize(t)
            IN IF Len(sentences) <= SummarySentences
               THEN JoinSpace(sentences)
               ELSE JoinSpace(SubSeq(sentences, 1, SummarySentences))
       ELSE Take(t, FallbackChars) \o Ellipsis

\* generate_summary: the bare except turns a tokenizer failure into the
\* truncated text
generate_summary(t, tok) ==
  IF Len(t) < MinSummaryLen THEN MsgTooShortSummary
  ELSE IF tok
       THEN LET sentences == sent_tokenize(t)
            IN IF Len(sentences) <= SummarySentences
               THEN JoinSpace(sentences)
               ELSE JoinSpace(SubSeq(sentences, 1, SummarySentences))
       ELSE Take(t, FallbackChars) \o Ellipsis

\* str.count(p): the occurrences of p in t (no indicator overlaps itself)
Occurrences(p, t) ==
  Cardinality({ i \in 1..(Len(t) - Len(p) + 1) : OccursAt(p, t, i) })

RECURSIVE SumOccurrences(_, _)
SumOccurrences(ps, t) ==
  IF ps = {} THEN 0
  ELSE LET p == CHOOSE q \in ps : TRUE
       IN Occurrences(p, t) + SumOccurrences(ps \ {p}, t)

fake_score_per_occurrence(text_lower) ==
  IndicatorWeight * SumOccurrences(fake_indicators, text_lower)

\* sum(3 for indicator in fake_indicators if indicator in text_lower)
fake_score(text_lower) ==
  IndicatorWeight *
    Cardinality({ p \in fake_indicators : Contains(p, text_lower) })

\* sum(3 for indicator in reliable_indicators if indicator in text_lower)
reliable_score(text_lower) ==
  IndicatorWeight *
    Cardinality({ p \in reliable_indicators : Contains(p, text_lower) })

PenalizePunctuation_inclusive(fake, features) ==
  IF features.exclamation_count >= features.sentence_count
  THEN fake + PunctuationPenalty
  ELSE fake

\* the penalty for more exclamation marks than sentences
PenalizePunctuation(fake, features) ==
  IF features.exclamation_count > features.sentence_count
  THEN fake + PunctuationPenalty
  ELSE fake

Ratios_zero_fallback(fake, reliable) ==
  LET total_indicators == fake + reliable
  IN IF total_indicators > 0
     THEN [fake_ratio |-> Rat(fake, total_indicators),
           reliable_ratio |-> Rat(reliable, total_indicators)]
     ELSE [fake_ratio |-> Rat(0, 1), reliable_ratio |-> Rat(0, 1)]

\* fake_ratio and reliable_ratio from the raw scores
Ratios(fake, reliable) ==
  LET total_indicators == fake + reliable
  IN IF total_indicators > 0
     THEN [fake_ratio |-> Rat(fake, total_indicators),
           reliable_ratio |-> Rat(reliable, total_indicators)]
     ELSE [fake_ratio |-> Half, reliable_ratio |-> Half]

RatGE(a, b) == a.num * b.den >= b.num * a.den

Verdict_inclusive(fake_ratio, reliable_ratio) ==
  LET scores == [fake_score |-> fake_ratio, reliable_score |-> reliable_ratio]
  IN IF RatGE(fake_ratio, Threshold)
     THEN [verdict |-> "Fake News", confidence |-> fake_ratio,
           color |-> "red", scores |-> scores]
     ELSE IF RatGE(reliable_ratio, Threshold)
     THEN [verdict |-> "Reliable", confidence |-> reliable_ratio,
           color |-> "green", scores |-> scores]
     ELSE [verdict |-> "Borderline/Uncertain",
           confidence |-> RatMax(fake_ratio, reliable_ratio),
           color |-> "orange", scores |-> scores]

\* verdict selection and the returned dictionary
Verdict(fake_ratio, reliable_ratio) ==
  LET scores == [fake_score |-> fake_ratio, reliable_score |-> reliable_ratio]
  IN IF RatGT(fake_ratio, Threshold)
     THEN [verdict |-> "Fake News", confidence |-> fake_ratio,
           color |-> "red", scores |-> scores]
     ELSE IF RatGT(reliable_ratio, Threshold)
     THEN [verdict |-> "Reliable", confidence |-> reliable_ratio,
           color |-> "green", scores |-> scores]
     ELSE [verdict |-> "Borderline/Uncertain",
           confidence |-> RatMax(fake_ratio, reliable_ratio),
           color |-> "orange", scores |-> scores]

credibility_analysis(t, tok) ==
  LET text_lower == Lower(t)
      features == extract_features(t, tok)
  IN IF features.raised THEN features
     ELSE LET fake == PenalizePunctuation(fake_score(text_lower),
                                          features.value)
              r == Ratios(fake, reliable_score(text_lower))
          IN Ret(Verdict(r.fake_ratio, r.reliable_ratio))

ResultFields == {"summary", "analysis", "features", "word_count", "char_count"}

TooShort_off_by_one(t) == Len(t) <= MinAnalysisLen

\* the length test that opens analyze_text
TooShort(t) == Len(t) < MinAnalysisLen

\* analyze_text, with the detector methods it invoked, in order
analyze_text(t, tok) ==
  IF TooShort(t)
  THEN [raised |-> FALSE, value |-> [error |-> MsgTooShortAnalysis],
        calls |-> <<>>]
  ELSE LET summary == generate_summary(t, tok)
           analysis == credibility_analysis(t, tok)
           features == extract_features(t, tok)
       IN IF analysis.raised
          THEN [raised |-> TRUE, value |-> analysis.value,
                calls |-> <<"generate_summary", "credibility_analysis",
                            "extract_features">>]
          ELSE IF features.raised
          THEN [raised |-> TRUE, value |-> features.value,
                calls |-> <<"generate_summary", "credibility_analysis",
                            "extract_features", "extract_features">>]
          ELSE [raised |-> FALSE,
                value |-> [summary |-> summary,
                           analysis |-> analysis.value,
                           features |-> features.value,
                           word_count |-> Len(Split(t)),
                           char_count |-> Len(t)],
                calls |-> <<"generate_summary", "credibility_analysis",
                            "extract_features", "extract_features">>]

\* ------------------------------------------- a method applied to an input
NoOutcome == [op |-> "none", raised |-> FALSE, value |-> <<>>, calls |-> <<>>]

NoRequest ==
  [submitted |-> FALSE, method |-> "none", punkt |-> TRUE, calls |-> <<>>,
   extraction |-> <<>>, analyzed |-> <<>>, shown |-> "none",
   stored |-> FALSE]

NoResponse == [status |-> "none"]

Outcome(name, r, calls) ==
  [op |-> name, raised |-> r.raised, value |-> r.value, calls |-> calls]

Idle == out.op = "none"

AnalyzeText ==
  /\ Idle
  /\ LET r == analyze_text(text, tok_ok)
     IN out' = Outcome("analyze_text", r, r.calls)
  /\ UNCHANGED <<page, analysis_history, clock, request, text, tok_ok, response>>

GenerateSummary ==
  /\ Idle
  /\ out' = Outcome("generate_summary", Ret(generate_summary(text, tok_ok)), <<>>)
  /\ UNCHANGED <<page, analysis_history, clock, request, text, tok_ok, response>>

ExtractFeatures ==
  /\ Idle
  /\ out' = Outcome("extract_features", extract_features(text, tok_ok), <<>>)
  /\ UNCHANGED <<page, analysis_history, clock, request, text, tok_ok, response>>

CredibilityAnalysis ==
  /\ Idle
  /\ out' = Outcome("credibility_analysis",
                    credibility_analysis(text, tok_ok), <<"extract_features">>)
  /\ UNCHANGED <<page, analysis_history, clock, request, text, tok_ok, response>>

InitAnalyze ==
  /\ page = "Home"
  /\ analysis_history = <<>>
  /\ clock = 0
  /\ request = NoRequest
  /\ text \in Texts
  /\ tok_ok \in BOOLEAN
  /\ response = NoResponse
  /\ out = NoOutcome

NextAnalyze ==
  \/ AnalyzeText
  \/ GenerateSummary
  \/ ExtractFeatures
  \/ CredibilityAnalysis

SpecAnalyze == InitAnalyze /\ [][NextAnalyze]_vars

\* --------------------------------------------------------- URL extraction
\* what requests.get and BeautifulSoup give for the URL: an exception, or a
\* parsed page with its <title>, its <article> and its <p> elements
NoTag == [present |-> FALSE, text |-> <<>>]

Tag(t) == [present |-> TRUE, text |-> t]

Failures == {"Timeout", "ConnectionError", "ParserError"}

ParagraphLists ==
  { [i \in 1..Len(c) |-> Chunks[c[i]]] : c \in ChunkLists(MaxParagraphs) }

Pages ==
  [status : {"ok"},
   title : {NoTag, Tag(TitleNews)},
   article : {NoTag} \cup { Tag(t) : t \in Texts },
   paragraphs : ParagraphLists]

Responses == [status : Failures] \cup Pages

Succeeded_inclusive(content) == Len(content) >= MinContentLen

\* 'success': True if len(content) > 100 else False
Succeeded(content) == Len(content) > MinContentLen

extract_article_from_url(resp) ==
  IF resp.status # "ok"
  THEN [title |-> TitleError, content |-> <<>>, success |-> FALSE,
        error |-> resp.status]
  ELSE LET title_text == IF resp.title.present THEN resp.title.text
                         ELSE TitleNone
           content == IF resp.article.present THEN resp.article.text
                      ELSE JoinSpace(resp.paragraphs)
           clean == Strip(CollapseWhitespace(content))
       IN [title |-> title_text, content |-> clean,
           success |-> Succeeded(clean)]

ExtractArticleFromUrl ==
  /\ Idle
  /\ out' = Outcome("extract_article_from_url",
                    Ret(extract_article_from_url(response)), <<"requests.get">>)
  /\ UNCHANGED <<page, analysis_history, clock, request, text, tok_ok, response>>

InitExtract ==
  /\ page = "Home"
  /\ analysis_history = <<>>
  /\ clock = 0
  /\ request = NoRequest
  /\ text = ExampleUrl
  /\ tok_ok = TRUE
  /\ response \in Responses
  /\ out = NoOutcome

NextExtract == ExtractArticleFromUrl

SpecExtract == InitExtract /\ [][NextExtract]_vars

\* ------------------------------------------------------ Streamlit session
PasteInputs == {<<>>, Chunk49, Chunk50, Chunk101 \o FakeChunk}

UrlInputs == {<<>>, ExampleUrl}

SessionResponses ==
  { [status |-> "Timeout"],
    [status |-> "ok", title |-> NoTag, article |-> Tag(Chunk101),
     paragraphs |-> <<Chunk101, Chunk50>>],
    [status |-> "ok", title |-> Tag(TitleNews), article |-> NoTag,
     paragraphs |-> <<Chunk50, ReliableChunk, Chunk50>>],
    [status |-> "ok", title |-> Tag(TitleNews), article |-> NoTag,
     paragraphs |-> <<Chunk49>>] }

\* {'timestamp': ..., 'title': ..., **analysis_result}
FullResult(timestamp, title, analysis_result) ==
  [k \in {"timestamp", "title"} \cup DOMAIN analysis_result |->
     IF k \in DOMAIN analysis_result THEN analysis_result[k]
     ELSE IF k = "timestamp" THEN timestamp ELSE title]

ExtractionFailed_only_on_error(extraction_result) ==
  "error" \in DOMAIN extraction_result

\* if not extraction_result['success']
ExtractionFailed(extraction_result) == ~extraction_result.success

HasError_never(analysis_result) == FALSE

\* if 'error' in analysis_result
HasError(analysis_result) == "error" \in DOMAIN analysis_result

\* the part of render_analysis_page from the call of analyze_text on
Analyze(method, calls, extraction, article_title, article_content, tok) ==
  \E analysis_result \in {analyze_text(article_content, tok)} :
    LET seen == [submitted |-> TRUE, method |-> method, punkt |-> tok,
                 calls |-> calls \o <<"analyze_text">> \o analysis_result.calls,
                 extraction |-> extraction,
                 analyzed |-> <<article_content>>,
                 shown |-> "none", stored |-> FALSE]
    IN IF analysis_result.raised
       THEN /\ request' = [seen EXCEPT !.shown = "Analysis failed"]
            /\ UNCHANGED analysis_history
       ELSE IF HasError(analysis_result.value)
       THEN /\ request' = [seen EXCEPT !.shown = "Text too short for analysis"]
            /\ UNCHANGED analysis_history
       ELSE /\ analysis_history' =
                 Append(analysis_history,
                        FullResult(clock, article_title, analysis_result.value))
            /\ request' = [seen EXCEPT !.shown = "Analysis Complete",
                                       !.stored = TRUE]

render_analysis_page(input_method, input_content, analyze_button, resp, tok) ==
  IF ~(analyze_button /\ input_content # <<>>)
  THEN /\ request' = [NoRequest EXCEPT !.method = input_method]
       /\ UNCHANGED <<analysis_history, clock>>
  ELSE /\ clock < MaxRequests
       /\ clock' = clock + 1
       /\ IF input_method = "Enter URL"
          THEN \E extraction_result \in {extract_article_from_url(resp)} :
                 IF ExtractionFailed(extraction_result)
                 THEN /\ request' =
                           [submitted |-> TRUE, method |-> input_method,
                            punkt |-> tok,
                            calls |-> <<"extract_article_from_url">>,
                            extraction |-> <<extraction_result>>,
                            analyzed |-> <<>>,
                            shown |-> "Could not extract content from URL",
                            stored |-> FALSE]
                      /\ UNCHANGED analysis_history
                 ELSE Analyze(input_method, <<"extract_article_from_url">>,
                              <<extraction_result>>, extraction_result.title,
                              extraction_result.content, tok)
          ELSE Analyze(input_method, <<>>, <<>>, TitlePasted, input_content,
                       tok)

RenderAnalysisPage ==
  /\ page' = "Analyze Article"
  /\ \E analyze_button \in BOOLEAN, tok \in BOOLEAN :
       \/ \E input_content \in PasteInputs :
            render_analysis_page("Paste Text", input_content, analyze_button,
                                 NoResponse, tok)
       \/ \E url \in UrlInputs, resp \in SessionResponses :
            render_analysis_page("Enter URL", url, analyze_button, resp, tok)
  /\ UNCHANGED <<text, tok_ok, response, out>>

RenderHomePage ==
  /\ page' = "Home"
  /\ request' = NoRequest
  /\ UNCHANGED <<analysis_history, clock, text, tok_ok, response, out>>

RenderHistoryPage ==
  /\ page' = "History"
  /\ request' = NoRequest
  /\ UNCHANGED <<analysis_history, clock, text, tok_ok, response, out>>

RenderLearnPage ==
  /\ page' = "Learn"
  /\ request' = NoRequest
  /\ UNCHANGED <<analysis_history, clock, text, tok_ok, response, out>>

Init ==
  /\ page = "Home"
  /\ analysis_history = <<>>
  /\ clock = 0
  /\ request = NoRequest
  /\ text = <<>>
  /\ tok_ok = TRUE
  /\ response = NoResponse
  /\ out = NoOutcome

Next ==
  \/ RenderHomePage
  \/ RenderAnalysisPage
  \/ RenderHistoryPage
  \/ RenderLearnPage

Spec == Init /\ [][Next]_vars

\* ------------------------------------------------------------- properties
Applied(name) == out.op = name

Returned(name) == out.op = name /\ ~out.raised

Range(s) == { s[i] : i \in 1..Len(s) }

Labels == {"Fake News", "Reliable", "Borderline/Uncertain"}

One == Rat(1, 1)

Zero == Rat(0, 1)

\* the raw scores of a text, from the phrases that occur in it
PresentIn(ps, t) == { p \in ps : Occurrences(p, Lower(t)) >= 1 }

ExcessExclamation(t) == CountChar(t, "!") > Len(sent_tokenize(t))

NoIndicators(t) ==
  \A p \in fake_indicators \cup reliable_indicators : ~Contains(p, Lower(t))

\* C1: analyze_text answers a text shorter than 50 characters with the
\* error value, invokes none of summarizer, scorer and feature extractor and
\* returns none of the result fields; a text of 50 characters or more never
\* gets the error value.
C1_ShortTextRejected ==
  Applied("analyze_text") =>
    IF Len(text) < 50
    THEN /\ ~out.raised
         /\ out.value = [error |-> MsgTooShortAnalysis]
         /\ out.calls = <<>>
         /\ DOMAIN out.value \cap ResultFields = {}
    ELSE out.raised \/ "error" \notin DOMAIN out.value

C1_Witness ==
  /\ Applied("analyze_text")
  /\ Len(text) = 49
  /\ "error" \in DOMAIN out.value

\* C2: the two scores of every returned verdict sum to 1 and lie in [0, 1];
\* they are fake_raw/total and reliable_raw/total when total > 0 and both
\* 0.5 when total = 0; the label is one of the three verdicts.
C2_ScoresSumToOne ==
  Returned("credibility_analysis") =>
    LET f == out.value.scores.fake_score
        r == out.value.scores.reliable_score
        fake_raw == IndicatorWeight * Cardinality(PresentIn(fake_indicators, text))
                    + (IF ExcessExclamation(text) THEN PunctuationPenalty ELSE 0)
        reliable_raw ==
          IndicatorWeight * Cardinality(PresentIn(reliable_indicators, text))
        total == fake_raw + reliable_raw
    IN /\ out.value.verdict \in Labels
       /\ f.den > 0 /\ r.den > 0
       /\ f.num * r.den + r.num * f.den = f.den * r.den
       /\ 0 <= f.num /\ f.num <= f.den
       /\ 0 <= r.num /\ r.num <= r.den
       /\ IF total > 0
          THEN RatEQ(f, Rat(fake_raw, total)) /\ RatEQ(r, Rat(reliable_raw, total))
          ELSE RatEQ(f, Half) /\ RatEQ(r, Half)

C2_Witness ==
  /\ Returned("credibility_analysis")
  /\ NoIndicators(text)
  /\ ~ExcessExclamation(text)
  /\ RatEQ(out.value.scores.fake_score, Half)

C4_Original ==
  Returned("credibility_analysis") =>
    /\ fake_score(Lower(text)) =
         3 * SumOccurrences(fake_indicators, Lower(text))
    /\ reliable_score(Lower(text)) =
         3 * SumOccurrences(reliable_indicators, Lower(text))

\* C4 amended: every indicator phrase that occurs in the lower-cased text
\* adds 3 to the raw score of its side once, however often it occurs, so
\* repeating a phrase leaves the raw score and the returned ratios alone.
C4_WeightPerPhrase ==
  Returned("credibility_analysis") =>
    LET fake_raw == 3 * Cardinality(PresentIn(fake_indicators, text))
        reliable_raw == 3 * Cardinality(PresentIn(reliable_indicators, text))
        penalty == IF ExcessExclamation(text) THEN 2 ELSE 0
        total == fake_raw + penalty + reliable_raw
    IN /\ fake_score(Lower(text)) = fake_raw
       /\ reliable_score(Lower(text)) = reliable_raw
       /\ total > 0 =>
            /\ RatEQ(out.value.scores.fake_score, Rat(fake_raw + penalty, total))
            /\ RatEQ(out.value.scores.reliable_score, Rat(reliable_raw, total))

C4_Witness ==
  /\ Returned("credibility_analysis")
  /\ \E p \in fake_indicators : Occurrences(p, Lower(text)) = 2
  /\ fake_score(Lower(text)) = 9

\* C5: every record of extract_article_from_url has success true exactly
\* when its whitespace-normalized content is longer than 100 characters; a
\* failure gives title 'Error', empty content, success false and the error
\* detail, and nothing is raised.
C5_SuccessIffLongContent ==
  Applied("extract_article_from_url") =>
    /\ ~out.raised
    /\ out.value.content = Strip(CollapseWhitespace(out.value.content))
    /\ out.value.success <=> Len(out.value.content) > 100
    /\ response.status # "ok" =>
         out.value = [title |-> TitleError, content |-> <<>>,
                      success |-> FALSE, error |-> response.status]

C5_Witness ==
  /\ Applied("extract_article_from_url")
  /\ response.status = "ok"
  /\ Len(out.value.content) = 100
  /\ ~out.value.success

\* C6: in the URL flow the page fetches once, extraction comes first, and
\* analyze_text runs only on the content of a record with success = true;
\* a request whose extraction did not succeed ends there.
C6_NoAnalysisAfterFailedExtraction ==
  (request.submitted /\ request.method = "Enter URL") =>
    /\ Len(request.extraction) = 1
    /\ request.calls[1] = "extract_article_from_url"
    /\ Cardinality({ i \in 1..Len(request.calls) :
                       request.calls[i] = "extract_article_from_url" }) = 1
    /\ LET e == request.extraction[1]
       IN /\ ~e.success =>
               /\ request.calls = <<"extract_article_from_url">>
               /\ request.analyzed = <<>>
               /\ ~request.stored
          /\ "analyze_text" \in Range(request.calls) =>
               /\ e.success
               /\ Len(e.content) > 100
               /\ request.analyzed = <<e.content>>

C6_Witness ==
  /\ request.submitted
  /\ request.method = "Enter URL"
  /\ "error" \in DOMAIN request.extraction[1]
  /\ request.calls = <<"extract_article_from_url">>

\* C7: analyze_text ends by returning a complete result or the error value,
\* whether or not tokenization works; nothing is raised.
C7_NoExceptionEscapes ==
  Applied("analyze_text") =>
    /\ ~out.raised
    /\ DOMAIN out.value \in {ResultFields, {"error"}}

\* C8: generate_summary gives the fixed string below 100 characters; else
\* the first 3 sentences (all of them when there are at most 3) joined by a
\* space; and the first 200 characters plus '...' when tokenization fails.
C8_Summary ==
  Applied("generate_summary") =>
    /\ ~out.raised
    /\ IF Len(text) < 100 THEN out.value = MsgTooShortSummary
       ELSE IF tok_ok
       THEN LET s == sent_tokenize(text)
                n == IF Len(s) <= 3 THEN Len(s) ELSE 3
            IN out.value = JoinSpace([i \in 1..n |-> s[i]])
       ELSE /\ Len(out.value) = (IF Len(text) < 200 THEN Len(text) ELSE 200) + 3
            /\ \A i \in 1..(Len(out.value) - 3) : out.value[i] = text[i]
            /\ SubSeq(out.value, Len(out.value) - 2, Len(out.value)) = Ellipsis

C8_Witness ==
  /\ Applied("generate_summary")
  /\ tok_ok
  /\ Len(text) >= 100
  /\ Len(sent_tokenize(text)) = 4
  /\ Len(sent_tokenize(out.value)) = 3

\* C9 as stated: no text makes fake_ratio or reliable_ratio exactly 0.6.
C9_Original ==
  Returned("credibility_analysis") =>
    /\ ~RatEQ(out.value.scores.fake_score, Threshold)
    /\ ~RatEQ(out.value.scores.reliable_score, Threshold)

\* C9 amended: a ratio can be exactly 0.6 (three fake and two reliable
\* phrases give 9/15) and the verdict is then Borderline with confidence
\* 0.6; Fake and Reliable have a winning ratio above 0.6, Borderline one of
\* at most 0.6, and the two ratios are never both above 0.6.
C9_StrictThreshold ==
  Returned("credibility_analysis") =>
    LET f == out.value.scores.fake_score
        r == out.value.scores.reliable_score
        v == out.value.verdict
        c == out.value.confidence
    IN /\ ~(RatGT(f, Threshold) /\ RatGT(r, Threshold))
       /\ v = "Fake News" <=> RatGT(f, Threshold)
       /\ v = "Reliable" <=> RatGT(r, Threshold)
       /\ v \in {"Fake News", "Reliable"} => RatGT(c, Threshold)
       /\ v = "Borderline/Uncertain" =>
            /\ ~RatGT(c, Threshold)
            /\ RatEQ(c, RatMax(f, r))
       /\ (RatEQ(f, Threshold) \/ RatEQ(r, Threshold)) =>
            /\ v = "Borderline/Uncertain"
            /\ RatEQ(c, Threshold)

C9_Witness ==
  /\ Returned("credibility_analysis")
  /\ RatEQ(out.value.scores.fake_score, Threshold)
  /\ out.value.verdict = "Borderline/Uncertain"

\* whether the request seen in a run of the script cannot give a result
Fails(r) ==
  \/ ~r.submitted
  \/ r.method = "Enter URL" /\ ~r.extraction[1].success
  \/ r.analyzed = <<>>
  \/ Len(r.analyzed[1]) < 50
  \/ ~r.punkt

HistoryStep ==
  LET r == request'
  IN IF Fails(r)
     THEN analysis_history' = analysis_history
     ELSE /\ Len(analysis_history') = Len(analysis_history) + 1
          /\ SubSeq(analysis_history', 1, Len(analysis_history)) = analysis_history
          /\ LET rec == analysis_history'[Len(analysis_history')]
             IN /\ DOMAIN rec = {"timestamp", "title"} \cup ResultFields
                /\ rec.timestamp = clock
                /\ rec.char_count = Len(r.analyzed[1])
                /\ rec.title = IF r.method = "Enter URL"
                               THEN r.extraction[1].title ELSE TitlePasted

\* C10: the history starts empty; a request that produces a complete result
\* appends exactly one record (timestamp, title, result fields) at the end;
\* a request that fails leaves the history unchanged; stored records are
\* never modified, reordered or removed.
C10_AppendOnly ==
  /\ analysis_history = <<>>
  /\ [][HistoryStep]_vars

C10_Witness ==
  /\ Len(analysis_history) = 2
  /\ request.submitted
  /\ ~request.stored
  /\ request.shown = "Text too short for analysis"

====
